---- MODULE Spec2Model ----
(***************************************************************************)
(* Model of the task views of django-taskify (tasks/views.py, tasks/forms.py *)
(* and the second copy of the app, taskify/tasks/views.py).                 *)
(*                                                                         *)
(* The Task table is the function `tasks` from primary keys to rows.  Text  *)
(* values are sequences of one-character strings, so that trimming,         *)
(* case folding, substring search and lexicographic order are computed.     *)
(* A date is a one-element sequence <<d>> and NULL is the empty sequence.    *)
(* The columns created_at and updated_at and the length limit of title are  *)
(* left out: no property below reads them.                                  *)
(***************************************************************************)
EXTENDS Integers, Sequences, FiniteSets, TLC

VARIABLES
    tasks,        \* the Task table: primary key -> row
    next_id,      \* the AutoField counter of the Task table
    nulls_first,  \* the database's placement of NULL in ORDER BY ... ASC
    response,     \* the response to the request handled last, with what it
                  \* followed: the value a toggle just before it found, the list
                  \* page given just before it for the same query
    inflight      \* the request that has looked its task up and not yet written

vars == <<tasks, next_id, nulls_first, response, inflight>>

----------------------------------------------------------------------------
(* Bounds *)

MaxTasks == 2        \* rows ever inserted under Spec and SpecConc
MaxPageTasks == 6    \* rows u1 inserts under SpecPage
MaxSearchTasks == 2  \* rows ever inserted under SpecSearch

(* Program constants *)

PageSize == 5        \* Paginator(tasks, 5)

----------------------------------------------------------------------------
(* Identities *)

Users == {"u1", "u2"}
Anonymous == "anonymous"          \* request.user of a request without a session
Identities == Users \cup {Anonymous}

NULL == <<>>

----------------------------------------------------------------------------
(* Text *)

CharOrder == <<" ", "A", "B", "Z", "a", "b", "z">>   \* code point order

Ord(c) == CHOOSE i \in 1..Len(CharOrder) : CharOrder[i] = c

UpperChar(c) == CASE c = "a" -> "A"
                  [] c = "b" -> "B"
                  [] c = "z" -> "Z"
                  [] OTHER -> c

Upper(s) == [i \in 1..Len(s) |-> UpperChar(s[i])]

RECURSIVE lstrip(_)
lstrip(s) == IF s # <<>> /\ Head(s) = " " THEN lstrip(Tail(s)) ELSE s

RECURSIVE rstrip(_)
rstrip(s) == IF s # <<>> /\ s[Len(s)] = " " THEN rstrip(SubSeq(s, 1, Len(s) - 1)) ELSE s

strip(s) == rstrip(lstrip(s))

\* x LIKE '%q%': q occurs in x at some offset
Like(x, q) == \E i \in 0..(Len(x) - Len(q)) : SubSeq(x, i + 1, i + Len(q)) = q

\* (mutant) a search that distinguishes case
icontains_exact_case(x, q) == Like(x, q)

\* field__icontains=q
icontains(x, q) == Like(Upper(x), Upper(q))

\* lexicographic comparison of two texts by code point
RECURSIVE TextLess(_, _)
TextLess(a, b) ==
    IF b = <<>> THEN FALSE
    ELSE IF a = <<>> THEN TRUE
    ELSE IF Head(a) # Head(b) THEN Ord(Head(a)) < Ord(Head(b))
    ELSE TextLess(Tail(a), Tail(b))

----------------------------------------------------------------------------
(* The Task table *)

Row(u, title, description, due_date, is_completed) ==
    [user |-> u, title |-> title, description |-> description,
     due_date |-> due_date, is_completed |-> is_completed]

NoRow == Row(Anonymous, <<>>, <<>>, NULL, FALSE)   \* placeholder where no row is read

EmptyTable == [k \in {} |-> NoRow]

\* Model.save() of an instance that has a primary key: UPDATE every column of
\* the row with that key, and INSERT the row when the UPDATE matched none
ModelSave(store, id, row) ==
    [k \in (DOMAIN store) \cup {id} |-> IF k = id THEN row ELSE store[k]]

\* Model.save() of a new instance: INSERT under the next AutoField value
ModelInsert(store, id, row) ==
    [k \in (DOMAIN store) \cup {id} |-> IF k = id THEN row ELSE store[k]]

\* Model.delete(): DELETE the row with that key
ModelDelete(store, id) == [k \in (DOMAIN store) \ {id} |-> store[k]]

\* (mutant) the lookup without its user=request.user condition
get_object_or_404_any_owner(store, id, u) ==
    IF u = Anonymous THEN [outcome |-> "server_error", row |-> NoRow]
    ELSE IF id \in DOMAIN store
         THEN [outcome |-> "found", row |-> store[id]]
         ELSE [outcome |-> "not_found", row |-> NoRow]

\* get_object_or_404(Task, id=task_id, user=request.user).  Comparing the user
\* column with AnonymousUser raises TypeError, which the server answers with 500.
get_object_or_404(store, id, u) ==
    IF u = Anonymous THEN [outcome |-> "server_error", row |-> NoRow]
    ELSE IF id \in DOMAIN store /\ store[id].user = u
         THEN [outcome |-> "found", row |-> store[id]]
         ELSE [outcome |-> "not_found", row |-> NoRow]

----------------------------------------------------------------------------
(* TaskForm: fields = ['title', 'description', 'due_date'] *)

\* request.POST is a function from the submitted keys to their values; a
\* field's raw value is the empty text when its key was not submitted
Raw(data, field) == IF field \in DOMAIN data THEN data[field] ELSE <<>>

\* DateField.to_python on a non-empty text
parse_date(s) == CASE s = <<"1">> -> [ok |-> TRUE, value |-> <<1>>]
                   [] s = <<"2">> -> [ok |-> TRUE, value |-> <<2>>]
                   [] OTHER -> [ok |-> FALSE, value |-> NULL]

\* (mutant) the title field without strip
clean_title_unstripped(data) == Raw(data, "title")

\* CharField(required=True, strip=True).clean
clean_title(data) == strip(Raw(data, "title"))

\* CharField(required=False, strip=True).clean
clean_description(data) == strip(Raw(data, "description"))

\* DateField(required=False).clean
clean_due_date(data) ==
    IF strip(Raw(data, "due_date")) = <<>> THEN [ok |-> TRUE, value |-> NULL]
    ELSE parse_date(strip(Raw(data, "due_date")))

\* form.errors
form_errors(data) ==
    (IF clean_title(data) = <<>> THEN {"title"} ELSE {})
    \cup (IF clean_due_date(data).ok THEN {} ELSE {"due_date"})

is_valid(data) == form_errors(data) = {}

\* (mutant) a form whose fields include the owner
construct_instance_with_user(row, data) ==
    [row EXCEPT !.title = clean_title(data),
                !.description = clean_description(data),
                !.due_date = clean_due_date(data).value,
                !.user = IF "user" \in DOMAIN data THEN data["user"] ELSE row.user]

\* construct_instance: the form's fields, and only they, are copied from
\* cleaned_data onto the instance
construct_instance(row, data) ==
    [row EXCEPT !.title = clean_title(data),
                !.description = clean_description(data),
                !.due_date = clean_due_date(data).value]

\* the unsaved instance of TaskForm(request.POST).save(commit=False): model
\* defaults, then the form's fields; the view then sets task.user
new_instance(u, data) == construct_instance(Row(u, <<>>, <<>>, NULL, FALSE), data)

----------------------------------------------------------------------------
(* The views.  A view's body is evaluated on the table as a plan: the response *)
(* it gives and the one write, if any, that it issues after its lookup.       *)

Respond(status, errors) ==
    [kind |-> "respond", status |-> status, errors |-> errors, id |-> 0,
     row |-> NoRow, before |-> NoRow]

\* a write followed by redirect('task_list'); `before` is the row as looked up
Write(kind, id, row, before) ==
    [kind |-> kind, status |-> "redirect_list", errors |-> {}, id |-> id,
     row |-> row, before |-> before]

\* @login_required
login_required(u, plan) ==
    IF u = Anonymous THEN Respond("login_redirect", {}) ELSE plan

add_task_view(u, method, data) ==
    IF method = "POST"
    THEN IF is_valid(data)
         THEN Write("insert", 0, [new_instance(u, data) EXCEPT !.user = u], NoRow)
         ELSE Respond("rendered", form_errors(data))
    ELSE Respond("rendered", {})

add_task(u, method, data) == login_required(u, add_task_view(u, method, data))

edit_task_view(store, u, id, method, data) ==
    LET task == get_object_or_404(store, id, u) IN
    IF task.outcome # "found" THEN Respond(task.outcome, {})
    ELSE IF method = "POST"
    THEN IF is_valid(data)
         THEN Write("save", id, construct_instance(task.row, data), task.row)
         ELSE Respond("rendered", form_errors(data))
    ELSE Respond("rendered", {})

edit_task(store, u, id, method, data) ==
    login_required(u, edit_task_view(store, u, id, method, data))

\* (mutant) a delete that looks the task up by its key alone
delete_task_view_by_key(store, u, id, method) ==
    IF id \notin DOMAIN store THEN Respond("not_found", {})
    ELSE IF method = "POST" THEN Write("delete", id, store[id], store[id])
    ELSE Respond("rendered", {})

delete_task_view(store, u, id, method) ==
    LET task == get_object_or_404(store, id, u) IN
    IF task.outcome # "found" THEN Respond(task.outcome, {})
    ELSE IF method = "POST" THEN Write("delete", id, task.row, task.row)
    ELSE Respond("rendered", {})

delete_task(store, u, id, method) ==
    login_required(u, delete_task_view(store, u, id, method))

\* (mutant) a toggle that marks the task completed whatever it was
toggle_view_set_completed(store, u, id) ==
    LET task == get_object_or_404(store, id, u) IN
    IF task.outcome # "found" THEN Respond(task.outcome, {})
    ELSE Write("save", id, [task.row EXCEPT !.is_completed = TRUE], task.row)

\* task.is_completed = not task.is_completed; task.save()
toggle_view(store, u, id) ==
    LET task == get_object_or_404(store, id, u) IN
    IF task.outcome # "found" THEN Respond(task.outcome, {})
    ELSE Write("save", id,
               [task.row EXCEPT !.is_completed = ~task.row.is_completed], task.row)

\* django-taskify: toggle_task_completion(request, task_id)
toggle_task_completion(store, u, id) == login_required(u, toggle_view(store, u, id))

\* taskify: toggle_task(request, task_id)
toggle_task(store, u, id) == login_required(u, toggle_view(store, u, id))

\* taskify: toggle_task_completion(request, pk), which has no decorator
taskify_toggle_task_completion(store, u, id) == toggle_view(store, u, id)

\* the table and the AutoField counter after the plan's write
Commit(store, next, plan) ==
    CASE plan.kind = "save" ->
           [tasks |-> ModelSave(store, plan.id, plan.row), next_id |-> next]
      [] plan.kind = "delete" ->
           [tasks |-> ModelDelete(store, plan.id), next_id |-> next]
      [] plan.kind = "insert" ->
           [tasks |-> ModelInsert(store, next, plan.row), next_id |-> next + 1]
      [] OTHER -> [tasks |-> store, next_id |-> next]

----------------------------------------------------------------------------
(* task_list: the query and its pagination *)

\* the orders in which the database returns rows that are equal on the ORDER BY
\* column: the query names no second column, so the order of such rows is the
\* database's choice, made anew for each query (ascending or descending key
\* here, the orders of a forward and of a backward scan)
ScanOrders == {"pk_asc", "pk_desc"}

\* the query string without a filter key
NoFilterParam == "(no filter key)"

\* request.GET.get('filter', 'all')
filter_status(param) == IF param = NoFilterParam THEN "all" ELSE param

\* (mutant) the query without its filter(user=request.user)
Matching_every_user(store, u, query) ==
    {t \in DOMAIN store :
        /\ (query.q # <<>> =>
               \/ icontains(store[t].title, query.q)
               \/ icontains(store[t].description, query.q))
        /\ (filter_status(query.filter) = "completed" => store[t].is_completed)
        /\ (filter_status(query.filter) = "pending" => ~store[t].is_completed)}

\* (mutant) a status filter that takes every value but 'all' and 'completed'
\* for 'pending'
Matching_pending_by_default(store, u, query) ==
    {t \in DOMAIN store :
        /\ store[t].user = u
        /\ (query.q # <<>> =>
               \/ icontains(store[t].title, query.q)
               \/ icontains(store[t].description, query.q))
        /\ (filter_status(query.filter) = "completed" => store[t].is_completed)
        /\ (filter_status(query.filter) \notin {"completed", "all"} =>
               ~store[t].is_completed)}

\* Task.objects.filter(user=request.user), then the search and status filters
Matching(store, u, query) ==
    {t \in DOMAIN store :
        /\ store[t].user = u
        /\ (query.q # <<>> =>
               \/ icontains(store[t].title, query.q)
               \/ icontains(store[t].description, query.q))
        /\ (filter_status(query.filter) = "completed" => store[t].is_completed)
        /\ (filter_status(query.filter) = "pending" => ~store[t].is_completed)}

\* ORDER BY due_date ASC on two column values
DueLess(a, b, nf) ==
    IF a = NULL THEN b # NULL /\ nf
    ELSE IF b = NULL THEN ~nf
    ELSE a[1] < b[1]

\* order_by('title') if sort == 'title', else order_by('due_date')
KeyLess(store, sort, nf, a, b) ==
    IF sort = "title" THEN TextLess(store[a].title, store[b].title)
    ELSE DueLess(store[a].due_date, store[b].due_date, nf)

RowBefore(store, sort, nf, scan, a, b) ==
    \/ KeyLess(store, sort, nf, a, b)
    \/ /\ ~KeyLess(store, sort, nf, b, a)
       /\ IF scan = "pk_asc" THEN a < b ELSE a > b

\* the rows of S in the order the database returns them: a row's place is
\* one more than the number of rows that come before it
OrderBy(S, store, sort, nf, scan) ==
    LET before == [a \in S |->
                     Cardinality({b \in S : RowBefore(store, sort, nf, scan, b, a)})]
    IN [i \in 1..Cardinality(S) |-> CHOOSE a \in S : before[a] = i - 1]

\* Paginator.num_pages, with allow_empty_first_page and no orphans
num_pages(count) ==
    IF count = 0 THEN 1 ELSE (count + PageSize - 1) \div PageSize

\* (mutant) a page number below 1 answered with the first page
get_page_number_nearest(page, count) ==
    IF "int" \notin DOMAIN page THEN 1
    ELSE IF page.int < 1 THEN 1
    ELSE IF page.int > num_pages(count) THEN num_pages(count)
    ELSE page.int

\* Paginator.get_page(number): a text that is no integer gives page 1
\* (PageNotAnInteger); an integer below 1 or above num_pages gives the last
\* page (EmptyPage)
get_page_number(page, count) ==
    IF "int" \notin DOMAIN page THEN 1
    ELSE IF page.int < 1 THEN num_pages(count)
    ELSE IF page.int > num_pages(count) THEN num_pages(count)
    ELSE page.int

\* Paginator.page(number).object_list: object_list[bottom:top]
page_slice(rows, number) ==
    LET bottom == (number - 1) * PageSize
        top == IF bottom + PageSize >= Len(rows) THEN Len(rows) ELSE bottom + PageSize
    IN SubSeq(rows, bottom + 1, top)

task_list_view(store, u, query, nf, scan) ==
    LET matching == Matching(store, u, query)
        count == Cardinality(matching)                      \* Paginator.count
        number == get_page_number(query.page, count)
    IN [status |-> "rendered",
        items |-> page_slice(OrderBy(matching, store, query.sort, nf, scan), number),
        number |-> number, num_pages |-> num_pages(count)]

task_list(store, u, query, nf, scan) ==
    IF u = Anonymous
    THEN [status |-> "login_redirect", items |-> <<>>, number |-> 0, num_pages |-> 0]
    ELSE task_list_view(store, u, query, nf, scan)

----------------------------------------------------------------------------
(* Requests *)

Methods == {"GET", "POST"}

\* the values of ?filter=; "other" is a value the view does not know
Filters == {NoFilterParam, "all", "completed", "pending", "other"}

\* request.GET.get('page'): a function holding the integer the text denotes
\* under "int", or the text under "text" when it denotes none; no key when absent
NoPageParam == [k \in {} |-> 0]
IntPage(n) == [k \in {"int"} |-> n]
TextPage == [k \in {"text"} |-> "x"]

Query(filter, sort, q, page) == [filter |-> filter, sort |-> sort, q |-> q, page |-> page]

NoQuery == Query("all", "due_date", <<>>, NoPageParam)

\* request.POST with every field of the form, and an owner the client slips in
Post(title, description, due_date, owner) ==
    [title |-> title, description |-> description, due_date |-> due_date, user |-> owner]

\* request.POST without a title key
PostNoTitle(description) == [k \in {"description"} |-> description]

ToggleHandlers == {"toggle_task_completion", "toggle_task", "taskify_toggle_task_completion"}

NoPage == [valid |-> FALSE, number |-> 0, items |-> {}]

NoResponse ==
    [handler |-> "none", user |-> Anonymous, method |-> "GET", task_id |-> 0,
     status |-> "none", errors |-> {}, before |-> FALSE, before_prev |-> {},
     items |-> <<>>, number |-> 0, num_pages |-> 0, query |-> NoQuery,
     prev_page |-> NoPage]

Range(seq) == {seq[i] : i \in 1..Len(seq)}

\* is_completed as the request before found it, when that request was a toggle
\* of the same task that saved and this one is too
BeforePrev(r, id, plan) ==
    IF /\ r.handler \in ToggleHandlers /\ r.status = "redirect_list"
       /\ r.task_id = id /\ plan.kind = "save"
    THEN {r.before} ELSE {}

\* the response of a view that is no list
PlanResponse(handler, u, method, id, plan, r) ==
    [handler |-> handler, user |-> u, method |-> method, task_id |-> id,
     status |-> plan.status, errors |-> plan.errors, before |-> plan.before.is_completed,
     before_prev |-> IF handler \in ToggleHandlers THEN BeforePrev(r, id, plan) ELSE {},
     items |-> <<>>, number |-> 0, num_pages |-> 0, query |-> NoQuery,
     prev_page |-> NoPage]

\* the page the request before gave, when it was a rendered list for the same
\* user, filter, sort and q and gave another page than `number`
PageBefore(r, u, query, number) ==
    IF /\ r.handler = "task_list" /\ r.status = "rendered" /\ r.user = u
       /\ r.query.filter = query.filter /\ r.query.sort = query.sort
       /\ r.query.q = query.q /\ r.number # number
    THEN [valid |-> TRUE, number |-> r.number, items |-> Range(r.items)]
    ELSE NoPage

----------------------------------------------------------------------------
(* State machine: one action per view, each request handled whole *)

Init ==
    /\ tasks = EmptyTable
    /\ next_id = 1
    /\ nulls_first = TRUE
    /\ response = NoResponse
    /\ inflight = {}

\* a view that is no list runs: its write is committed and its response given
Handle(handler, u, method, id, plan) ==
    /\ tasks' = Commit(tasks, next_id, plan).tasks
    /\ next_id' = Commit(tasks, next_id, plan).next_id
    /\ response' = PlanResponse(handler, u, method, id, plan, response)
    /\ UNCHANGED <<nulls_first, inflight>>

\* a form request: GET, or POST with its data
Get == [method |-> "GET", data |-> [k \in {} |-> <<>>]]
Posted(data) == [method |-> "POST", data |-> data]

AddTask(u, req, max) ==
    /\ add_task(u, req.method, req.data).kind = "insert" => next_id <= max
    /\ Handle("add_task", u, req.method, 0, add_task(u, req.method, req.data))

EditTask(u, id, req) ==
    Handle("edit_task", u, req.method, id, edit_task(tasks, u, id, req.method, req.data))

DeleteTask(u, id, method) ==
    Handle("delete_task", u, method, id, delete_task(tasks, u, id, method))

ToggleTaskCompletion(u, id) ==
    Handle("toggle_task_completion", u, "GET", id, toggle_task_completion(tasks, u, id))

ToggleTask(u, id) ==
    Handle("toggle_task", u, "GET", id, toggle_task(tasks, u, id))

TaskifyToggleTaskCompletion(u, id) ==
    Handle("taskify_toggle_task_completion", u, "GET", id,
           taskify_toggle_task_completion(tasks, u, id))

TaskList(u, query) ==
    \E scan \in ScanOrders :
      \E page \in {task_list(tasks, u, query, nulls_first, scan)} :
        /\ response' = [handler |-> "task_list", user |-> u, method |-> "GET",
                        task_id |-> 0, status |-> page.status, errors |-> {},
                        before |-> FALSE, before_prev |-> {}, items |-> page.items,
                        number |-> page.number, num_pages |-> page.num_pages,
                        query |-> query,
                        prev_page |-> IF page.status = "rendered"
                                      THEN PageBefore(response, u, query, page.number)
                                      ELSE NoPage]
        /\ UNCHANGED <<tasks, next_id, nulls_first, inflight>>

(* Spec: every view, two users and the anonymous client, few rows *)

TaskIds == 1..(MaxTasks + 1)     \* the keys ever assigned, and one never assigned

CrudRequests ==
    {Get,
     Posted(Post(<<"a">>, <<>>, <<>>, "u2")),
     Posted(Post(<<" ", "b">>, <<"z">>, <<"1">>, "u1")),
     Posted(Post(<<" ">>, <<"z">>, <<"1">>, "u2")),
     Posted(PostNoTitle(<<"z">>))}

CrudQueries == {Query("all", "due_date", <<>>, NoPageParam),
                Query("pending", "title", <<"a">>, TextPage)}

Next ==
    \/ \E u \in Identities, req \in CrudRequests : AddTask(u, req, MaxTasks)
    \/ \E u \in Identities, id \in TaskIds, req \in CrudRequests : EditTask(u, id, req)
    \/ \E u \in Identities, id \in TaskIds, m \in Methods : DeleteTask(u, id, m)
    \/ \E u \in Identities, id \in TaskIds : ToggleTaskCompletion(u, id)
    \/ \E u \in Identities, id \in TaskIds : ToggleTask(u, id)
    \/ \E u \in Identities, id \in TaskIds : TaskifyToggleTaskCompletion(u, id)
    \/ \E u \in Identities, query \in CrudQueries : TaskList(u, query)

Spec == Init /\ [][Next]_vars

----------------------------------------------------------------------------
(* Claims checked under Spec *)

OwnerScopedHandlers ==
    {"edit_task", "delete_task", "toggle_task_completion", "toggle_task"}

\* C1: an edit, delete or toggle request (display or submit) by u1 that names a
\* task of another user is answered exactly as the same request naming a key
\* of no task: not found, with no write; and every such request that was made
\* was answered not found.
C1_ForeignTaskIsNotFound ==
    /\ \A u1 \in Users, t \in DOMAIN tasks, m \in TaskIds \ DOMAIN tasks :
          tasks[t].user # u1 =>
            /\ \A req \in CrudRequests :
                  /\ edit_task(tasks, u1, t, req.method, req.data)
                       = edit_task(tasks, u1, m, req.method, req.data)
                  /\ edit_task(tasks, u1, t, req.method, req.data) = Respond("not_found", {})
            /\ \A method \in Methods :
                  /\ delete_task(tasks, u1, t, method) = delete_task(tasks, u1, m, method)
                  /\ delete_task(tasks, u1, t, method) = Respond("not_found", {})
            /\ toggle_task_completion(tasks, u1, t) = toggle_task_completion(tasks, u1, m)
            /\ toggle_task_completion(tasks, u1, t) = Respond("not_found", {})
            /\ toggle_task(tasks, u1, t) = toggle_task(tasks, u1, m)
            /\ toggle_task(tasks, u1, t) = Respond("not_found", {})
    /\ (/\ response.handler \in OwnerScopedHandlers
        /\ response.user \in Users
        /\ response.task_id \in DOMAIN tasks
        /\ tasks[response.task_id].user # response.user)
       => response.status = "not_found"

C1_Witness ==
    /\ response.handler = "delete_task"
    /\ response.method = "POST"
    /\ response.user = "u1"
    /\ response.task_id \in DOMAIN tasks
    /\ tasks[response.task_id].user = "u2"
    /\ response.status = "not_found"

\* C3: every owner-scoped view answers a request without an authenticated
\* user with the redirect to the login page.
C3_AnonymousIsRedirectedToLogin ==
    response.user = Anonymous /\ response.handler # "none"
        => response.status = "login_redirect"

\* C5: a task that is inserted is owned by the authenticated user of the
\* add_task request that inserted it, whatever owner the submitted data name,
\* and no request changes the owner of a task that exists.
C5_OwnerIsCreatorAndFixed ==
    [][/\ \A t \in (DOMAIN tasks') \ (DOMAIN tasks) :
             /\ response'.handler = "add_task"
             /\ tasks'[t].user = response'.user
       /\ \A t \in (DOMAIN tasks') \cap (DOMAIN tasks) :
             tasks'[t].user = tasks[t].user]_vars

\* a valid edit whose data named u2 as owner was saved on a task of u1 (the
\* one request of CrudRequests with title "a" names u2)
C5_Witness ==
    /\ response.handler = "edit_task"
    /\ response.status = "redirect_list"
    /\ response.user = "u1"
    /\ response.task_id \in DOMAIN tasks
    /\ tasks[response.task_id].title = <<"a">>
    /\ tasks[response.task_id].user = "u1"

BlankTitleRequests ==
    {req \in CrudRequests :
        req.method = "POST" /\ strip(Raw(req.data, "title")) = <<>>}

\* C6: a create or edit submit whose title is missing or empty after trimming
\* is answered with the form and an error on title, not a redirect, and writes
\* nothing: the table after it is the table before it.
C6_BlankTitleRejected ==
    /\ \A u \in Users, req \in BlankTitleRequests :
          /\ add_task(u, req.method, req.data).status = "rendered"
          /\ "title" \in add_task(u, req.method, req.data).errors
          /\ Commit(tasks, next_id, add_task(u, req.method, req.data)).tasks = tasks
    /\ \A t \in DOMAIN tasks, req \in BlankTitleRequests :
          LET plan == edit_task(tasks, tasks[t].user, t, req.method, req.data) IN
          /\ plan.status = "rendered"
          /\ "title" \in plan.errors
          /\ Commit(tasks, next_id, plan).tasks = tasks
    /\ (response.handler \in {"add_task", "edit_task"} /\ response.errors # {})
          => response.status = "rendered"

C6_Witness ==
    /\ response.handler = "edit_task"
    /\ response.method = "POST"
    /\ "title" \in response.errors
    /\ response.status = "rendered"
    /\ response.task_id \in DOMAIN tasks
    /\ tasks[response.task_id].user = response.user

\* C7: after a toggle by the owner the task's is_completed is the negation of
\* what the request found, and after a second toggle straight after the first
\* it is what the first one found.
C7_ToggleNegatesAndTwiceRestores ==
    (response.handler \in ToggleHandlers /\ response.status = "redirect_list") =>
        /\ response.task_id \in DOMAIN tasks
        /\ tasks[response.task_id].is_completed = ~response.before
        /\ \A original \in response.before_prev :
              tasks[response.task_id].is_completed = original

C7_Witness ==
    /\ response.handler = "toggle_task_completion"
    /\ response.status = "redirect_list"
    /\ response.before_prev = {FALSE}
    /\ response.task_id \in DOMAIN tasks
    /\ ~tasks[response.task_id].is_completed

----------------------------------------------------------------------------
(* SpecPage: lists of more rows than a page holds.  u2 adds the first row or *)
(* none; u1 adds rows that differ in due_date only; both list, with every    *)
(* kind of page parameter; the database puts NULL first or last.             *)

InitPage ==
    /\ tasks = EmptyTable
    /\ next_id = 1
    /\ nulls_first \in BOOLEAN
    /\ response = NoResponse
    /\ inflight = {}

PageRequests == {Posted(Post(<<"a">>, <<>>, <<>>, "u1")),
                 Posted(Post(<<"a">>, <<>>, <<"1">>, "u1"))}

OtherRequests == {Posted(Post(<<"a">>, <<>>, <<>>, "u2"))}

PageParams == {IntPage(n) : n \in -1..3}

PageQueries == {Query("all", "due_date", <<>>, page) : page \in PageParams}

\* the rows of u
Owned(u) == {t \in DOMAIN tasks : tasks[t].user = u}

NextPage ==
    \/ \E req \in PageRequests :
          AddTask("u1", req, MaxPageTasks + Cardinality(Owned("u2")))
    \/ \E req \in OtherRequests : next_id = 1 /\ AddTask("u2", req, MaxPageTasks)
    \/ \E u \in Users, query \in PageQueries : TaskList(u, query)

SpecPage == InitPage /\ [][NextPage]_vars

RenderedList == response.handler = "task_list" /\ response.status = "rendered"

\* C4: every task on a list page given to u, whatever the page, is a task of u.
C4_ListShowsOnlyOwnTasks ==
    RenderedList =>
        \A i \in 1..Len(response.items) :
            /\ response.items[i] \in DOMAIN tasks
            /\ tasks[response.items[i]].user = response.user

\* u1 was given its second page while u2 owns a row
C4_Witness ==
    /\ RenderedList
    /\ response.user = "u1"
    /\ response.number = 2
    /\ response.items # <<>>
    /\ \E t \in DOMAIN tasks : tasks[t].user = "u2"

PageInt == response.query.page.int

\* C8 as claimed: a page number above the page count gives the last page and a
\* page number below 1 gives the first page.
C8_ClampsToNearestPage ==
    (RenderedList /\ "int" \in DOMAIN response.query.page) =>
        /\ response.number \in 1..response.num_pages
        /\ PageInt > response.num_pages => response.number = response.num_pages
        /\ PageInt < 1 => response.number = 1

\* C8 as amended: an out-of-range page number never errors; a page number above
\* the page count, and a page number below 1 as well, gives the last page.
C8_OutOfRangeGivesLastPage ==
    (RenderedList /\ "int" \in DOMAIN response.query.page) =>
        /\ response.number \in 1..response.num_pages
        /\ PageInt > response.num_pages => response.number = response.num_pages
        /\ PageInt < 1 => response.number = response.num_pages
        /\ PageInt \in 1..response.num_pages => response.number = PageInt

\* page 0 of a list of two pages
C8_Witness ==
    /\ RenderedList
    /\ "int" \in DOMAIN response.query.page
    /\ PageInt = 0
    /\ response.num_pages = 2
    /\ response.number = 2

\* C9: with the table unchanged, two pages of one query given one after the
\* other hold no task in common, a page before the last holds PageSize tasks,
\* and the two pages of a query of two pages hold every matching task.
C9_PagesPartitionTheResult ==
    RenderedList =>
        /\ response.number < response.num_pages => Len(response.items) = PageSize
        /\ (response.prev_page.valid /\ response.prev_page.number # response.number) =>
              /\ Range(response.items) \cap response.prev_page.items = {}
              /\ response.num_pages = 2 =>
                    Range(response.items) \cup response.prev_page.items
                        = Matching(tasks, response.user, response.query)

----------------------------------------------------------------------------
(* SpecSearch: the search and status filters.  Both users add rows whose     *)
(* title and description differ in letters and in case, toggle them, and     *)
(* list them by title under every filter and search text.                    *)

SearchRequests == {Posted(Post(<<"a", "B">>, <<>>, <<>>, "u1")),
                   Posted(Post(<<"b">>, <<"A">>, <<>>, "u1"))}

SearchTexts == {<<>>, <<"a">>, <<"A", "b">>, <<"B">>, <<"z">>}

SearchQueries ==
    {Query(filter, "title", q, NoPageParam) : filter \in Filters, q \in SearchTexts}

SearchIds == 1..MaxSearchTasks

NextSearch ==
    \/ \E u \in Users, req \in SearchRequests : AddTask(u, req, MaxSearchTasks)
    \/ \E u \in Users, id \in SearchIds : ToggleTaskCompletion(u, id)
    \/ \E u \in Users, query \in SearchQueries : TaskList(u, query)

SpecSearch == Init /\ [][NextSearch]_vars

LowerChar(c) == CASE c = "A" -> "a"
                  [] c = "B" -> "b"
                  [] c = "Z" -> "z"
                  [] OTHER -> c

Lower(s) == [i \in 1..Len(s) |-> LowerChar(s[i])]

\* q, letters folded, is a run of consecutive characters of x, letters folded
ContainsFolded(x, q) ==
    \E i \in 1..(Len(x) + 1), j \in 0..Len(x) : SubSeq(Lower(x), i, j) = Lower(q)

StatusSelected(filter, row) ==
    CASE filter = "completed" -> row.is_completed
      [] filter = "pending" -> ~row.is_completed
      [] OTHER -> TRUE

\* C10: for a search text that is not empty the list holds exactly the
\* caller's tasks, of the status asked for, whose title or description contains
\* the text whatever the case of its letters, each once; a text that no task
\* contains gives the empty list; the empty text restricts nothing.
C10_SearchIsCaseInsensitiveSubstring ==
    (RenderedList /\ response.num_pages = 1) =>
        LET q == response.query.q
            selected == {t \in DOMAIN tasks :
                           /\ tasks[t].user = response.user
                           /\ StatusSelected(response.query.filter, tasks[t])
                           /\ \/ q = <<>>
                              \/ ContainsFolded(tasks[t].title, q)
                              \/ ContainsFolded(tasks[t].description, q)}
        IN /\ Range(response.items) = selected
           /\ Len(response.items) = Cardinality(selected)

\* the text "a" found a task by the "A" of its description alone
C10_Witness ==
    /\ RenderedList
    /\ response.query.q = <<"a">>
    /\ \E i \in 1..Len(response.items) :
          /\ tasks[response.items[i]].title = <<"b">>
          /\ tasks[response.items[i]].description = <<"A">>
    /\ \E t \in DOMAIN tasks : tasks[t].user = response.user /\ t \notin Range(response.items)

\* the caller's tasks that the search text q leaves in the result
Searched(u, q) ==
    {t \in DOMAIN tasks :
        /\ tasks[t].user = u
        /\ \/ q = <<>>
           \/ ContainsFolded(tasks[t].title, q)
           \/ ContainsFolded(tasks[t].description, q)}

\* C11: the status filter of the list selects, among the caller's tasks that
\* the search leaves, exactly the completed ones for 'completed', exactly the
\* ones not completed for 'pending', and every one of them for 'all', for a
\* query without a filter value and for a value the view does not know.
C11_StatusFilterSelects ==
    (RenderedList /\ response.num_pages = 1) =>
        LET found == Searched(response.user, response.query.q)
            shown == Range(response.items)
        IN /\ response.query.filter = "completed" =>
                 shown = {t \in found : tasks[t].is_completed = TRUE}
           /\ response.query.filter = "pending" =>
                 shown = {t \in found : tasks[t].is_completed = FALSE}
           /\ response.query.filter \in {"all", NoFilterParam, "other"} =>
                 shown = found

\* the caller owns a completed and a pending task, and the list under a filter
\* value the view does not know shows both
C11_Witness ==
    /\ RenderedList
    /\ response.query.filter = "other"
    /\ response.query.q = <<>>
    /\ \E a, b \in Range(response.items) :
          tasks[a].is_completed /\ ~tasks[b].is_completed

----------------------------------------------------------------------------
(* SpecConc: a request's lookup and its write are two steps.  One request at *)
(* a time is held between its get_object_or_404 and its save() or delete();  *)
(* while it is held, the requests of both users run whole, each one a lookup *)
(* and a write of its own inside the held request's window.  Two requests    *)
(* whose steps interleave in any way are covered: their lookups commute, so  *)
(* the one that writes first runs inside the window of the other.            *)

\* the view has run up to its write: the plan is kept with what the request was
Lookup(handler, u, method, id, plan) ==
    /\ inflight = {}
    /\ plan.kind # "respond"
    /\ inflight' = {[handler |-> handler, user |-> u, method |-> method,
                     id |-> id, plan |-> plan]}
    /\ UNCHANGED <<tasks, next_id, nulls_first, response>>

LookupEditTask(u, id, req) ==
    Lookup("edit_task", u, req.method, id, edit_task(tasks, u, id, req.method, req.data))

LookupDeleteTask(u, id, method) ==
    Lookup("delete_task", u, method, id, delete_task(tasks, u, id, method))

LookupToggleTaskCompletion(u, id) ==
    Lookup("toggle_task_completion", u, "GET", id, toggle_task_completion(tasks, u, id))

\* the held request issues its write on the table as it is now, and responds
WriteBack ==
    \E p \in inflight :
        /\ tasks' = Commit(tasks, next_id, p.plan).tasks
        /\ next_id' = Commit(tasks, next_id, p.plan).next_id
        /\ response' = PlanResponse(p.handler, p.user, p.method, p.id, p.plan, response)
        /\ inflight' = {}
        /\ UNCHANGED nulls_first

ConcAdd == Posted(Post(<<"a">>, <<>>, <<>>, "u2"))
ConcEdit == Posted(Post(<<"a">>, <<>>, <<>>, "u1"))

NextConc ==
    \/ \E u \in Users : AddTask(u, ConcAdd, MaxTasks)
    \/ \E u \in Users, id \in TaskIds : EditTask(u, id, ConcEdit)
    \/ \E u \in Users, id \in TaskIds : DeleteTask(u, id, "POST")
    \/ \E u \in Users, id \in TaskIds : ToggleTaskCompletion(u, id)
    \/ \E u \in Users, id \in TaskIds : LookupEditTask(u, id, ConcEdit)
    \/ \E u \in Users, id \in TaskIds : LookupDeleteTask(u, id, "POST")
    \/ \E u \in Users, id \in TaskIds : LookupToggleTaskCompletion(u, id)
    \/ WriteBack

SpecConc == Init /\ [][NextConc]_vars

\* C2: a step that changes the table is the write of one request, and it leaves
\* every task that is not owned by that request's user in the table, with the
\* title, description, due_date and is_completed it had; this also when the
\* write comes after other requests ran between it and its lookup.
C2_OtherUsersTasksUntouched ==
    [][tasks' # tasks =>
          \A t \in DOMAIN tasks :
              tasks[t].user # response'.user =>
                  /\ t \in DOMAIN tasks'
                  /\ tasks'[t] = tasks[t]]_vars

\* u2 deleted a task of its own while a task of u1 is in the table and a
\* request of u1 is held between its lookup and its write
C2_Witness ==
    /\ response.user = "u2"
    /\ response.status = "redirect_list"
    /\ response.handler = "delete_task"
    /\ \E t \in DOMAIN tasks : tasks[t].user = "u1"
    /\ \E p \in inflight : p.user = "u1"

\* C12: requests are atomic against the table when they interleave, so no
\* toggle is lost: when two toggles of one task by its owner have completed one
\* straight after the other, whichever way their lookups and their saves
\* interleaved, the stored is_completed is the value the first to complete
\* found (an even number of toggles restores the original value).
C12_NoToggleIsLost ==
    (/\ response.handler \in ToggleHandlers
     /\ response.status = "redirect_list"
     /\ response.before_prev # {}
     /\ response.task_id \in DOMAIN tasks) =>
        response.before_prev = {tasks[response.task_id].is_completed}

\* C13: the step in which a valid edit commits changes, of the task it names,
\* the title, description and due_date at most: the task's is_completed and
\* user after the step are the ones stored just before it, also when other
\* requests committed between the edit's lookup and its save.
C13_EditKeepsCompletionAndOwner ==
    [][(/\ response'.handler = "edit_task"
        /\ response'.status = "redirect_list"
        /\ response'.task_id \in DOMAIN tasks) =>
            /\ response'.task_id \in DOMAIN tasks'
            /\ tasks'[response'.task_id].is_completed =
                  tasks[response'.task_id].is_completed
            /\ tasks'[response'.task_id].user = tasks[response'.task_id].user]_vars

\* C14: deletion is final: a step never brings a task into the table under an
\* identifier at or below the last one assigned, so a task that a delete
\* removed is in the table in no later state, also when an edit or a toggle
\* that looked it up before the delete saves after it.
C14_DeletedTaskStaysDeleted ==
    [][\A t \in DOMAIN tasks' : t \notin DOMAIN tasks => t >= next_id]_vars

====
